---- MODULE Spec2Model ----
(***************************************************************************)
(* Deviations API (src/main.py): a FastAPI service with three GET          *)
(* endpoints over an OpenSearch index.  Every endpoint declares            *)
(* Depends(get_opensearch_client), so the framework calls that factory     *)
(* (construct a client, ping it) for each request, before it converts the  *)
(* query parameters and before it calls the endpoint function.             *)
(*                                                                         *)
(* Optional[T] values are sequences of length 0 (None) or 1.               *)
(*                                                                         *)
(* Requests share no state (each gets its own client), so they are taken   *)
(* one at a time; the counters clientsCreated, pings and served run over   *)
(* the whole sequence of requests.  response.via tells who produced the    *)
(* response: the endpoint function, the framework's parameter validation   *)
(* (422), or the server's handling of an exception nobody caught (500).    *)
(***************************************************************************)
EXTENDS Integers, Sequences, FiniteSets, TLC

\* ---------------------------------------------------------------- bounds
MaxRequests == 2
MaxTime == 1
MaxHits == 2

\* ------------------------------------------------------ program constants
DefaultSize == 10
MinSize == 1
MaxSize == 100
DefaultFrom == 0
Version == "1.0.0"

None == << >>
Some(x) == << x >>
IsNone(o) == Len(o) = 0

\* ------------------------------------------------------------ value sets
\* A text value of a time parameter and a datetime object share one record
\* shape; "type" tells them apart, "wellformed" says whether the text is
\* ISO 8601, "aware" whether it carries a UTC offset.
StrValue(w, i, a) == [type |-> "str", wellformed |-> w, inst |-> i, aware |-> a]
DatetimeValue(i, a) == [type |-> "datetime", wellformed |-> TRUE, inst |-> i, aware |-> a]

RawNames == {None, Some(""), Some("Camera_01")}
RawTimes == {None, Some(StrValue(FALSE, 0, FALSE))}
              \cup {Some(StrValue(TRUE, i, a)) : i \in 0..MaxTime, a \in BOOLEAN}
\* a raw integer parameter: numeric text with its value, or non-numeric text
RawInt(n, v) == [numeric |-> n, val |-> v]
RawSizes == {None, Some(RawInt(FALSE, 0))}
              \cup {Some(RawInt(TRUE, v)) : v \in {-1, 0, 1, 100, 101}}
RawFroms == {None, Some(RawInt(FALSE, 0))}
              \cup {Some(RawInt(TRUE, v)) : v \in {-1, 0, 20}}
DeviationIds == {"1", "unknown-id"}

\* the documents of the "deviations" index
Docs == {[_id |-> "1", _source |-> "recA"], [_id |-> "2", _source |-> "recB"]}
HitLists == UNION {[1..n -> Docs] : n \in 0..MaxHits}
ClusterStatuses == {"green", "yellow", "red"}

NoParams == [camera_name |-> None, event_type |-> None, camera_type |-> None,
             start_time |-> None, end_time |-> None, size |-> None, from_ |-> None,
             deviation_id |-> ""]
ListParams == [camera_name : RawNames, event_type : RawNames, camera_type : RawNames,
               start_time : RawTimes, end_time : RawTimes, size : RawSizes,
               from_ : RawFroms, deviation_id : {""}]

\* ------------------------------------------------- parameter conversion
\* datetime.fromisoformat / the framework's datetime conversion
fromisoformat(s) == DatetimeValue(s.inst, s.aware)
\* datetime.isoformat
isoformat(d) == StrValue(TRUE, d.inst, d.aware)

\* the upper bound off by one
SizeInRange_le101(n) == n >= MinSize /\ n <= MaxSize + 1

\* Query(10, ge=1, le=100)
SizeInRange(n) == n >= MinSize /\ n <= MaxSize
\* Query(0, alias="from"): an int, no bound declared
FromInRange(n) == TRUE

TimeError(o) == ~IsNone(o) /\ ~o[1].wellformed
SizeError(o) == ~IsNone(o) /\ (~o[1].numeric \/ ~SizeInRange(o[1].val))
FromError(o) == ~IsNone(o) /\ (~o[1].numeric \/ ~FromInRange(o[1].val))

\* the validation errors the framework collects for the list endpoint
QueryParamErrors(r) ==
    (IF TimeError(r.start_time) \/ TimeError(r.end_time) THEN {"InvalidDateFormat"} ELSE {})
      \cup (IF SizeError(r.size) THEN {"InvalidSize"} ELSE {})
      \cup (IF FromError(r.from_) THEN {"InvalidOffset"} ELSE {})

\* the typed arguments the endpoint function is called with
QueryParamValues(r) ==
    [camera_name |-> r.camera_name, event_type |-> r.event_type,
     camera_type |-> r.camera_type,
     start_time |-> IF IsNone(r.start_time) THEN None ELSE Some(fromisoformat(r.start_time[1])),
     end_time |-> IF IsNone(r.end_time) THEN None ELSE Some(fromisoformat(r.end_time[1])),
     size |-> IF IsNone(r.size) THEN DefaultSize ELSE r.size[1].val,
     from_ |-> IF IsNone(r.from_) THEN DefaultFrom ELSE r.from_[1].val]

\* DeviationQueryParams.parse_datetime (pre-validator): text is parsed,
\* anything else passes through
parse_datetime(o) ==
    IF ~IsNone(o) /\ o[1].type = "str" THEN Some(fromisoformat(o[1])) ELSE o

\* DeviationQueryParams(...): no bound on size or from_
DeviationQueryParams(v) ==
    [v EXCEPT !.start_time = parse_datetime(v.start_time),
              !.end_time = parse_datetime(v.end_time)]

\* ------------------------------------------------------- query compiler
\* a test against None instead of a truth test
Truthy_NotNone(o) == ~IsNone(o)

\* truth value of an Optional[str]: None and "" are false
Truthy(o) == ~IsNone(o) /\ o[1] # ""

TermClause(f, v) == [kind |-> "term", field |-> f, value |-> v, gte |-> None, lte |-> None]
RangeClause(g, l) == [kind |-> "range", field |-> "timestamp", value |-> "", gte |-> g, lte |-> l]

TermClauses(q) ==
    (IF Truthy(q.camera_name) THEN << TermClause("camera_name", q.camera_name[1]) >> ELSE << >>)
      \o (IF Truthy(q.event_type) THEN << TermClause("event_type", q.event_type[1]) >> ELSE << >>)
      \o (IF Truthy(q.camera_type) THEN << TermClause("camera_type", q.camera_type[1]) >> ELSE << >>)

\* the end-only branch writes the lower bound
RangeClauses_EndAsLower(q) ==
    IF ~IsNone(q.start_time) /\ ~IsNone(q.end_time)
    THEN << RangeClause(Some(isoformat(q.start_time[1])), Some(isoformat(q.end_time[1]))) >>
    ELSE IF ~IsNone(q.start_time)
    THEN << RangeClause(Some(isoformat(q.start_time[1])), None) >>
    ELSE IF ~IsNone(q.end_time)
    THEN << RangeClause(Some(isoformat(q.end_time[1])), None) >>
    ELSE << >>

\* a datetime object is always true, so the branches test presence
RangeClauses(q) ==
    IF ~IsNone(q.start_time) /\ ~IsNone(q.end_time)
    THEN << RangeClause(Some(isoformat(q.start_time[1])), Some(isoformat(q.end_time[1]))) >>
    ELSE IF ~IsNone(q.start_time)
    THEN << RangeClause(Some(isoformat(q.start_time[1])), None) >>
    ELSE IF ~IsNone(q.end_time)
    THEN << RangeClause(None, Some(isoformat(q.end_time[1]))) >>
    ELSE << >>

\* start_time > end_time on two datetimes: comparing a naive with an aware
\* datetime raises TypeError
CompareRaises(q) ==
    ~IsNone(q.start_time) /\ ~IsNone(q.end_time)
      /\ q.start_time[1].aware # q.end_time[1].aware
StartAfterEnd(q) ==
    ~IsNone(q.start_time) /\ ~IsNone(q.end_time)
      /\ q.start_time[1].aware = q.end_time[1].aware
      /\ q.start_time[1].inst > q.end_time[1].inst

\* the arguments of opensearch_client.search
SearchCall(q) ==
    [index |-> "deviations", must |-> TermClauses(q) \o RangeClauses(q),
     size |-> q.size, from_ |-> q.from_]

\* ------------------------------------------------------------ responses
Response(st, via, rs) ==
    [status |-> st, via |-> via, reasons |-> rs, deviations |-> << >>,
     record |-> None, health |-> None]

\* [hit["_source"] for hit in response["hits"]["hits"]]
Sources(hits) == [i \in 1..Len(hits) |-> hits[i]._source]

\* ----------------------------------------------------------------- state
VARIABLES pc, endpoint, raw, client, ops, search, response,
          clientsCreated, pings, served

vars == << pc, endpoint, raw, client, ops, search, response,
           clientsCreated, pings, served >>

\* No client is constructed when the module is loaded: the factory is
\* only referenced by Depends.
Init ==
    /\ pc = "idle"
    /\ endpoint = "none"
    /\ raw = NoParams
    /\ client = 0
    /\ ops = << >>
    /\ search = None
    /\ response = None
    /\ clientsCreated = 0
    /\ pings = 0
    /\ served = 0

\* a request arrives and is routed
Receive ==
    /\ pc = "idle"
    /\ served < MaxRequests
    /\ \E e \in {"list", "byid", "health"} :
         /\ endpoint' = e
         /\ raw' \in IF e = "list" THEN ListParams
                     ELSE IF e = "byid" THEN {[NoParams EXCEPT !.deviation_id = d] : d \in DeviationIds}
                     ELSE {NoParams}
    /\ pc' = "deps"
    /\ UNCHANGED << client, ops, search, response, clientsCreated, pings, served >>

\* the client is returned without the connection check
get_opensearch_client_NoPing ==
    /\ pc = "deps"
    /\ clientsCreated' = clientsCreated + 1
    /\ client' = clientsCreated + 1
    /\ pc' = "params"
    /\ UNCHANGED << endpoint, raw, ops, search, response, pings, served >>

\* one client, built and pinged for the first request, serves the later ones
get_opensearch_client_Shared ==
    /\ pc = "deps"
    /\ IF clientsCreated = 0
       THEN /\ clientsCreated' = 1
            /\ pings' = pings + 1
            /\ ops' = Append(ops, "ping")
       ELSE UNCHANGED << clientsCreated, pings, ops >>
    /\ client' = 1
    /\ pc' = "params"
    /\ UNCHANGED << endpoint, raw, search, response, served >>

\* get_opensearch_client, called by the framework for this request: a new
\* client, then ping; a failed ping raises outside every endpoint's try
get_opensearch_client ==
    /\ pc = "deps"
    /\ clientsCreated' = clientsCreated + 1
    /\ pings' = pings + 1
    /\ ops' = Append(ops, "ping")
    /\ \E up \in BOOLEAN :
         IF up
         THEN /\ client' = clientsCreated + 1
              /\ pc' = "params"
              /\ response' = response
         ELSE /\ client' = 0
              /\ pc' = "responded"
              /\ response' = Some(Response(500, "unhandled", {}))
    /\ UNCHANGED << endpoint, raw, search, served >>

\* the framework converts and checks the declared parameters; errors are
\* answered with 422 and the endpoint function is not called
SolveParams ==
    /\ pc = "params"
    /\ IF endpoint = "list" /\ QueryParamErrors(raw) # {}
       THEN /\ pc' = "responded"
            /\ response' = Some(Response(422, "framework", QueryParamErrors(raw)))
       ELSE /\ pc' = "endpoint"
            /\ response' = response
    /\ UNCHANGED << endpoint, raw, client, ops, search, clientsCreated, pings, served >>

\* get_deviations up to the search call
get_deviations ==
    /\ pc = "endpoint"
    /\ endpoint = "list"
    /\ LET q == DeviationQueryParams(QueryParamValues(raw)) IN
         IF CompareRaises(q)
         THEN /\ pc' = "responded"
              /\ response' = Some(Response(500, "endpoint", {}))
              /\ UNCHANGED << ops, search >>
         ELSE IF StartAfterEnd(q)
         THEN /\ pc' = "responded"
              /\ response' = Some(Response(400, "endpoint", {"InvalidTimeRange"}))
              /\ UNCHANGED << ops, search >>
         ELSE /\ pc' = "dispatched"
              /\ ops' = Append(ops, "search")
              /\ search' = Some(SearchCall(q))
              /\ response' = response
    /\ UNCHANGED << endpoint, raw, client, clientsCreated, pings, served >>

\* the search returns hits or raises
get_deviations_result ==
    /\ pc = "dispatched"
    /\ \/ \E hits \in HitLists :
            response' = Some([Response(200, "endpoint", {}) EXCEPT !.deviations = Sources(hits)])
       \/ response' = Some(Response(500, "endpoint", {}))
    /\ pc' = "responded"
    /\ UNCHANGED << endpoint, raw, client, ops, search, clientsCreated, pings, served >>

\* get_deviation_by_id: every exception of the lookup becomes 404
get_deviation_by_id ==
    /\ pc = "endpoint"
    /\ endpoint = "byid"
    /\ ops' = Append(ops, "get")
    /\ \/ \E d \in Docs :
            /\ d._id = raw.deviation_id
            /\ response' = Some([Response(200, "endpoint", {}) EXCEPT !.record = Some(d._source)])
       \/ /\ \A d \in Docs : d._id # raw.deviation_id
          /\ response' = Some(Response(404, "endpoint", {}))
       \/ response' = Some(Response(404, "endpoint", {}))
    /\ pc' = "responded"
    /\ UNCHANGED << endpoint, raw, client, search, clientsCreated, pings, served >>

\* health_check: every exception of the probe becomes 503
health_check ==
    /\ pc = "endpoint"
    /\ endpoint = "health"
    /\ ops' = Append(ops, "health")
    /\ \/ \E s \in ClusterStatuses :
            response' = Some([Response(200, "endpoint", {}) EXCEPT
                                !.health = Some([status |-> "healthy", opensearch_status |-> s,
                                                 version |-> Version])])
       \/ response' = Some(Response(503, "endpoint", {}))
    /\ pc' = "responded"
    /\ UNCHANGED << endpoint, raw, client, search, clientsCreated, pings, served >>

\* the response is sent; the request's client is dropped with it
Respond ==
    /\ pc = "responded"
    /\ pc' = "idle"
    /\ served' = served + 1
    /\ endpoint' = "none"
    /\ raw' = NoParams
    /\ client' = 0
    /\ ops' = << >>
    /\ search' = None
    /\ response' = None
    /\ UNCHANGED << clientsCreated, pings >>

Next ==
    \/ Receive
    \/ get_opensearch_client
    \/ SolveParams
    \/ get_deviations
    \/ get_deviations_result
    \/ get_deviation_by_id
    \/ health_check
    \/ Respond

Spec == Init /\ [][Next]_vars

\* ---------------------------------------------------------------- claims
Responded == pc = "responded"
Resp == response[1]
NameFields == {"camera_name", "event_type", "camera_type"}
Populated(o) == o # None /\ o # Some("")
\* both times given, well formed, comparable, and start after end
RawStartAfterEnd ==
    /\ raw.start_time # None /\ raw.end_time # None
    /\ raw.start_time[1].wellformed /\ raw.end_time[1].wellformed
    /\ raw.start_time[1].aware = raw.end_time[1].aware
    /\ raw.start_time[1].inst > raw.end_time[1].inst
\* the parameters the framework would accept
RawWellTyped ==
    /\ \A t \in {raw.start_time, raw.end_time} : t = None \/ t[1].wellformed
    /\ raw.size = None \/ (raw.size[1].numeric /\ raw.size[1].val \in 1..100)
    /\ raw.from_ = None \/ raw.from_[1].numeric
Rank(c) ==
    IF c.kind = "range" THEN 4
    ELSE IF c.field = "camera_name" THEN 1
    ELSE IF c.field = "event_type" THEN 2
    ELSE 3

C2_StartAfterEndIs400 ==
    (Responded /\ endpoint = "list" /\ RawWellTyped /\ RawStartAfterEnd)
      => (Resp.status = 400 /\ search = None)

\* C3: every search dispatched to the backend has offset >= 0, and a
\* request with a negative offset is answered as a client error without a
\* search.
C3_OffsetNonNegative ==
    /\ search # None => search[1].from_ >= 0
    /\ (endpoint = "list" /\ raw.from_ # None /\ raw.from_[1].numeric /\ raw.from_[1].val < 0)
         => search = None

C5_TermClauses ==
    /\ search # None =>
         LET m == search[1].must IN
           /\ \A f \in NameFields :
                LET at == {i \in DOMAIN m : m[i].kind = "term" /\ m[i].field = f} IN
                  /\ Cardinality(at) = (IF Populated(raw[f]) THEN 1 ELSE 0)
                  /\ \A i \in at : m[i].value = raw[f][1]
           /\ \A i \in DOMAIN m : m[i].kind = "term" => m[i].field \in NameFields
           /\ \A i, j \in DOMAIN m : i < j => Rank(m[i]) < Rank(m[j])
    /\ (endpoint = "list" /\ raw = NoParams) =>
         /\ search # None =>
              (search[1].must = << >> /\ search[1].size = 10 /\ search[1].from_ = 0)
         /\ Responded => (Resp.reasons = {} /\ (Resp.via = "endpoint" => search # None))

C5_Witness ==
    /\ search # None
    /\ Populated(raw.camera_name) /\ raw.event_type = Some("") /\ Populated(raw.camera_type)
    /\ raw.start_time # None
    /\ Len(search[1].must) = 3

\* C6: the dispatched query holds at most one range clause, on timestamp:
\* both times given gives one clause with gte = start and lte = end; only
\* start_time gives gte alone; only end_time gives lte alone; neither gives
\* no range clause.
C6_RangeClause ==
    search # None =>
      LET m == search[1].must
          at == {i \in DOMAIN m : m[i].kind = "range"}
          s == raw.start_time
          e == raw.end_time
      IN
        /\ Cardinality(at) = (IF s = None /\ e = None THEN 0 ELSE 1)
        /\ \A i \in at :
             /\ m[i].field = "timestamp"
             /\ IF s = None THEN m[i].gte = None
                ELSE m[i].gte # None /\ m[i].gte[1] = s[1]
             /\ IF e = None THEN m[i].lte = None
                ELSE m[i].lte # None /\ m[i].lte[1] = e[1]
        /\ (s # None /\ e # None) => s[1].inst <= e[1].inst

C6_Witness ==
    /\ search # None
    /\ raw.start_time # None /\ raw.end_time # None
    /\ raw.start_time[1].inst < raw.end_time[1].inst
    /\ \E i \in DOMAIN search[1].must :
         search[1].must[i].gte # None /\ search[1].must[i].lte # None

\* C7: a by-id request is answered 200 with the stored record, or 404 when
\* the lookup fails in any way, the backend being unreachable included; no
\* other status is produced.
C7_ByIdIs200Or404 ==
    (Responded /\ endpoint = "byid") =>
      /\ Resp.status \in {200, 404}
      /\ Resp.status = 200 =>
           \E d \in Docs : d._id = raw.deviation_id /\ Resp.record = Some(d._source)

\* C8: a health request is answered 503 when the backend is unavailable or
\* the probe fails, and 200 with status "healthy", the cluster's status and
\* the service version when the probe succeeds.
C8_HealthIs200Or503 ==
    (Responded /\ endpoint = "health") =>
      /\ Resp.status \in {200, 503}
      /\ client = 0 => Resp.status = 503
      /\ Resp.status = 200 =>
           /\ Resp.health # None
           /\ Resp.health[1].status = "healthy"
           /\ Resp.health[1].opensearch_status \in ClusterStatuses
           /\ Resp.health[1].version = "1.0.0"

\* C9: a list request with valid parameters ends either 200 with the
\* records, or with a 500 produced by the endpoint's own exception mapping:
\* a backend failure at any point of the request, the ping included, is
\* caught by the endpoint; the search is called at most once.
C9_BackendFailureCaughtByEndpoint ==
    (Responded /\ endpoint = "list" /\ RawWellTyped /\ ~RawStartAfterEnd) =>
      /\ Resp.via = "endpoint"
      /\ Resp.status \in {200, 500}
      /\ Cardinality({i \in DOMAIN ops : ops[i] = "search"}) <= 1

====
